---- MODULE Spec2Model ----
(***************************************************************************)
(* pytfa: ThermoModel (core/tmodel.py) and chebyshev_center                *)
(* (analysis/chebyshev.py) as a state machine.                             *)
(*                                                                         *)
(* A state is one ThermoModel instance (its metabolites, reactions, thermo *)
(* records, typed-variable and typed-constraint registry), the copy made   *)
(* by copy(), and the position of the call in progress.  Each loop         *)
(* iteration of prepare and convert is one action, in the order of the     *)
(* source.  Energies are integers; a coefficient is a pair <<n, u>> that   *)
(* stands for n*u with u one of "1", "RT", "1/RT".                         *)
(***************************************************************************)
EXTENDS Integers, Sequences, FiniteSets, TLC

\* ------------------------------------------------------------ constants
\* numerics.BIGM and friends, imported at tmodel.py:42-46
BIGM == 1000
BIGM_THERMO == 1000
BIGM_DG == 10000000
BIGM_P == 1000
\* the test `metDeltaGF < 10 ** 6` of _convert_metabolite
DGF_LIMIT == 1000000
\* solver.configuration.tolerances.feasibility, read at tmodel.py:367
epsilon == 1
\* len(reaction.metabolites) >= 100 in _prepare_reaction
MAX_PARTICIPANTS == 100
\* the default value 2 of DeltaGRerr
DEFAULT_DGR_ERR == 2
\* chebyshev.BIGM, the default of big_m
CHEBYSHEV_BIGM == 1000
\* solver.configuration.tolerances.optimality, read at chebyshev.py:145
optimality == 1

\* ------------------------------------------------------------ bounds
\* largest absolute stoichiometric coefficient (of the first participant; the
\* second has -1, 0 or 1)
MaxStoich == 1
\* how many times chebyshev_center is called on one model
MaxChebyshevCalls == 1
\* direct calls on the registry (add, remove, repair, lookup) in one behaviour
MaxRegistryCalls == 3

\* ------------------------------------------------------------ entities
\* model.metabolites and model.reactions are ordered lists (DictList)
MetOrder == <<"m1", "m2", "m3">>
RxnOrder == <<"r1", "r2">>
MetIds == {MetOrder[k] : k \in 1..Len(MetOrder)}
RxnIds == {RxnOrder[k] : k \in 1..Len(RxnOrder)}

\* model.compartments: the compartments that carry pH, ionicStr, c_min, c_max
Compartments == {"c", "e"}

Formulas == {"H2O", "H", "X"}
\* met.annotation['seed_id']; "none" stands for a missing annotation
SeedIds == {"cpd00001", "cpd00067", "cpd11416", "cpdX"}
NoSeed == "none"

\* what check_reaction_balance can report
BalanceResults == {"ok", "missing atoms", "drain flux"}

VARIABLES
    metabolites,   \* id -> [formula, seed_id, compartment, inDB]
    reactions,     \* id -> [stoich, lower_bound, upper_bound, n_other, balance, cues_err]
    met_thermo,    \* id -> met.thermo (has = FALSE: attribute not set)
    rxn_thermo,    \* id -> reaction.thermo (has = FALSE: attribute not set)
    proton_of,     \* self._proton_of: compartment -> metabolite id
    var_dict,      \* self._var_dict: name -> typed variable
    cons_dict,     \* self._cons_dict: name -> typed constraint
    LC_vars,       \* self.LC_vars: metabolites with a registered LogConcentration
    new_model,     \* the model returned by the last copy()
    cheb,          \* the last chebyshev_center call
    op,            \* the call in progress or last finished
    pc,            \* position inside the call ("idle" between calls)
    i,             \* loop index of the call in progress
    raised,        \* exception that ended the last call ("" = none)
    args,          \* arguments of the call in progress or last finished
    pre,           \* registry when the call in progress or last finished started
    names,         \* entity -> item.name, the display name, as a sequence of characters
    kinds,         \* self._var_kinds, self._cons_kinds and the attributes repair has set
    lookup         \* the direct calls on the registry: their number, the last result

vars == <<metabolites, reactions, met_thermo, rxn_thermo, proton_of, var_dict,
          cons_dict, LC_vars, new_model, cheb, op, pc, i, raised, args, pre,
          names, kinds, lookup>>

\* ------------------------------------------------------------ helpers
Put(d, k, v) == [x \in (DOMAIN d) \cup {k} |-> IF x = k THEN v ELSE d[x]]
EmptyDict == [x \in {} |-> 0]

RECURSIVE SumOver(_, _)
SumOver(S, f) ==
    IF S = {} THEN 0
    ELSE LET x == CHOOSE y \in S : TRUE IN f[x] + SumOver(S \ {x}, f)


\* ------------------------------------------------------------ inputs
\* stoichiometries of the modelled participants (0: not a participant)
Stoichs == {s \in [MetIds -> (0 - MaxStoich)..MaxStoich] :
              s["m2"] \in -1..1 /\ s["m3"] = 0 /\ \E m \in MetIds : s[m] # 0}
\* further participants of a reaction, not modelled one by one: ordinary
\* metabolites with usable thermo data
OtherParticipants == {0, 98}

Met(f, s, c, d) == [formula |-> f, seed_id |-> s, compartment |-> c, inDB |-> d]
Rxn(s, lb, ub, n, b, e) ==
    [stoich |-> s, lower_bound |-> lb, upper_bound |-> ub, n_other |-> n,
     balance |-> b, cues_err |-> e]

AnyMet == [formula : Formulas, seed_id : SeedIds, compartment : Compartments,
           inDB : BOOLEAN]
\* a metabolite in a compartment the model does not know, one without seed_id
OddMet == {Met("X", "cpdX", "x", TRUE), Met("X", NoSeed, "c", TRUE)}
CommonMet == {Met("H2O", "cpd00001", "c", TRUE), Met("X", "cpdX", "c", TRUE),
              Met("X", "cpdX", "c", FALSE), Met("X", "cpd11416", "c", TRUE)}
\* the third metabolite: the proton of a compartment, or no proton at all
ProtonMet == {Met("H", "cpd00067", "c", TRUE), Met("X", "cpdZ", "e", TRUE)}
\* lower and upper flux bounds around -BIGM and BIGM
FluxBounds == {<<-10, 10>>, <<0 - BIGM, BIGM>>, <<0 - BIGM - 1, 10>>,
               <<-10, BIGM + 1>>}
PlainRxn(s) == Rxn(s, -10, 10, 0, "ok", 0)
DrainOf(m) == [x \in MetIds |-> IF x = m THEN -1 ELSE 0]
AnyRxn ==
    {Rxn(s, b[1], b[2], 0, "ok", 0) : s \in Stoichs, b \in FluxBounds}
    \cup {Rxn(s, -10, 10, n, r, e) :
             s \in Stoichs, n \in OtherParticipants, r \in BalanceResults, e \in {0, 3}}

\* models that vary the metabolites
MetaboliteModels ==
    {<<[m1 |-> a, m2 |-> b, m3 |-> h],
       [r1 |-> PlainRxn(s), r2 |-> PlainRxn(DrainOf("m2"))]>> :
        a \in AnyMet \cup OddMet, b \in CommonMet, h \in ProtonMet,
        s \in {DrainOf("m1"), [m1 |-> -1, m2 |-> 1, m3 |-> 0],
               [m1 |-> 1, m2 |-> -1, m3 |-> 0], [m1 |-> -1, m2 |-> -1, m3 |-> 0]}}
\* models that vary the reactions
ReactionModels ==
    {<<ms, [r1 |-> x, r2 |-> y]>> :
        ms \in {[m1 |-> Met("X", "cpdX", "c", TRUE), m2 |-> Met("X", "cpdY", "c", TRUE),
                 m3 |-> Met("H", "cpd00067", "c", TRUE)],
                [m1 |-> Met("H2O", "cpd00001", "e", TRUE),
                 m2 |-> Met("H2O", "cpd00001", "c", TRUE),
                 m3 |-> Met("H", "cpd00067", "c", TRUE)],
                [m1 |-> Met("X", "cpdX", "e", TRUE), m2 |-> Met("X", "cpdX", "c", TRUE),
                 m3 |-> Met("H", "cpd00067", "e", TRUE)]},
        x \in AnyRxn,
        y \in {PlainRxn(DrainOf("m2")), PlainRxn([m1 |-> -1, m2 |-> 1, m3 |-> 1]),
               Rxn(DrainOf("m1"), -10, BIGM + 1, 0, "ok", 0)}}

NoMetThermo == [has |-> FALSE, deltaGf_std |-> 0, deltaGf_tr |-> 0, deltaGf_err |-> 0]
NoRxnThermo == [has |-> FALSE, isTrans |-> FALSE, computed |-> FALSE, deltaGR |-> 0,
                deltaGRerr |-> 0, compartment |-> "None", proton |-> "None"]
NoArgs == [add_potentials |-> FALSE, add_displacement |-> FALSE, inplace |-> FALSE,
           big_m |-> 0, include |-> {}, exclude |-> {}, variables |-> {}]
\* item.id of the entities, as sequences of characters (a run of characters
\* without bracket is one element): identifiers of the form met[c] and rxn(e)
EntityId(e) ==
    CASE e = "m1" -> <<"m1", "[", "c", "]">>
      [] e = "m2" -> <<"m2", "(", "e", ")">>
      [] e = "r1" -> <<"r1", "(", "e", ")">>
      [] OTHER -> <<e>>
\* item.name of the source model: the identifier and a bracketed remark
SourceNames == [e \in MetIds \cup RxnIds |-> EntityId(e) \o <<" ", "[", "x", "]">>]
\* before the first repair the model has no _var_kinds and no _cons_kinds
NoKinds == [made |-> FALSE, var_kinds |-> EmptyDict, cons_kinds |-> EmptyDict,
            attrs |-> {}]
NoLookup == [calls |-> 0, kind |-> "None", result |-> {}]
NoCopy == [made |-> FALSE, var_dict |-> EmptyDict, cons_dict |-> EmptyDict,
           kinds |-> NoKinds]
NoCheb == [calls |-> 0, edited |-> EmptyDict, radius |-> -1, warned |-> FALSE,
           returned |-> FALSE, result |-> [series |-> {}, radius |-> <<>>]]

\* ThermoModel.__init__ : empty registry, no thermo record on any entity
Init ==
    /\ \E mdl \in MetaboliteModels \cup ReactionModels :
         /\ metabolites = mdl[1]
         /\ reactions = mdl[2]
    /\ met_thermo = [m \in MetIds |-> NoMetThermo]
    /\ rxn_thermo = [r \in RxnIds |-> NoRxnThermo]
    /\ proton_of = EmptyDict
    /\ var_dict = EmptyDict
    /\ cons_dict = EmptyDict
    /\ LC_vars = {}
    /\ new_model = NoCopy
    /\ cheb = NoCheb
    /\ op = "none"
    /\ pc = "idle"
    /\ i = 0
    /\ raised = ""
    /\ args = NoArgs
    /\ pre = <<EmptyDict, EmptyDict>>
    /\ names = SourceNames
    /\ kinds = NoKinds
    /\ lookup = NoLookup

\* ------------------------------------------------------------ model queries
\* the modelled participants of a reaction, in model order
Participants(r) == {m \in MetIds : reactions[r].stoich[m] # 0}
\* len(reaction.metabolites)
NumMetabolites(r) == Cardinality(Participants(r)) + reactions[r].n_other
\* reaction.reactants (the participants not modelled one by one are products)
Reactants(r) == {m \in MetIds : reactions[r].stoich[m] < 0}
Products(r) == {m \in MetIds : reactions[r].stoich[m] > 0}
Abs(n) == IF n < 0 THEN 0 - n ELSE n
Min(a, b) == IF a < b THEN a ELSE b

\* utils.find_transported_mets: the pairs (reactant, product) that are the
\* same compound in two compartments, with the transported amount
find_transported_mets(r) ==
    {[reactant |-> a, product |-> b,
      coeff |-> Min(Abs(reactions[r].stoich[a]), Abs(reactions[r].stoich[b]))] :
        <<a, b>> \in {p \in Reactants(r) \X Products(r) :
            /\ metabolites[p[1]].seed_id = metabolites[p[2]].seed_id
            /\ metabolites[p[1]].seed_id # NoSeed
            /\ metabolites[p[1]].compartment # metabolites[p[2]].compartment}}
\* utils.check_transport_reaction
check_transport_reaction(r) == find_transported_mets(r) # {}

\* thermo.MetaboliteThermo: the record of a metabolite; without data in the
\* thermo database every energy is the BIGM_DG sentinel
MetaboliteThermo(m) ==
    IF metabolites[m].inDB
    THEN [has |-> TRUE, deltaGf_std |-> -50, deltaGf_tr |-> -40, deltaGf_err |-> 1]
    ELSE [has |-> TRUE, deltaGf_std |-> BIGM_DG, deltaGf_tr |-> BIGM_DG,
          deltaGf_err |-> BIGM_DG]

\* ------------------------------------------------------------ calls
Idle == pc = "idle"
Registry == <<var_dict, cons_dict>>
\* a call starts: remember its arguments and the registry it found
Enter(name, a, first) ==
    /\ Idle
    /\ op' = name
    /\ args' = a
    /\ pc' = first
    /\ i' = 1
    /\ raised' = ""
    /\ pre' = Registry
\* the call in progress ends, normally (exc = "") or with an exception
Leave(exc) ==
    /\ pc' = "idle"
    /\ i' = 0
    /\ raised' = exc
    /\ UNCHANGED <<op, args, pre>>
\* the call in progress moves on inside its body
Goto(label, k) ==
    /\ pc' = label
    /\ i' = k
    /\ UNCHANGED <<op, args, pre, raised>>
\* mutant of NextItem: the loop is left one item early
NextItemSkipsLast(label, n, after) ==
    IF i < n - 1 THEN Goto(label, i + 1) ELSE Goto(after, 1)
\* the loop over a list of length n moves to its next item or to `after`
NextItem(label, n, after) ==
    IF i < n THEN Goto(label, i + 1) ELSE Goto(after, 1)

\* ------------------------------------------------------------ prepare
\* mutant of IsProton: the seed_id annotation is not consulted
IsProtonByFormula(m) == metabolites[m].formula = "H"
\* the test of prepare for the proton metabolite
IsProton(m) ==
    \/ metabolites[m].formula = "H"
    \/ metabolites[m].seed_id = "cpd00067"

\* the dictionary `proton` built by the loop of prepare: for each compartment
\* the last proton metabolite of the list
FindProtons ==
    LET prot(c) == {k \in 1..Len(MetOrder) :
                      IsProton(MetOrder[k]) /\ metabolites[MetOrder[k]].compartment = c}
        comps == {metabolites[m].compartment : m \in {x \in MetIds : IsProton(x)}}
    IN [c \in comps |-> MetOrder[CHOOSE k \in prot(c) : \A j \in prot(c) : j <= k]]

\* reaction.compartment as the loop of _prepare_reaction leaves it: the
\* compartment shared by all participants, and 'c' when they differ
ReactionCompartment(r) ==
    LET cs == {metabolites[m].compartment : m \in Participants(r)}
    IN IF Cardinality(cs) = 1 THEN CHOOSE c \in cs : TRUE ELSE "c"

\* correctThermoValues of _prepare_reaction
CorrectThermoValues(r) ==
    \A m \in Participants(r) : ~(10 * met_thermo[m].deltaGf_std > 9 * BIGM_DG)

\* mutant of Computable: a reaction of exactly 100 participants is accepted
ComputableOffByOne(r) ==
    ~(\/ NumMetabolites(r) = 1
      \/ ~CorrectThermoValues(r)
      \/ NumMetabolites(r) > MAX_PARTICIPANTS
      \/ reactions[r].balance \in {"missing atoms", "drain flux"})
\* the condition under which _prepare_reaction creates the thermo constraint
Computable(r) ==
    ~(\/ NumMetabolites(r) = 1
      \/ ~CorrectThermoValues(r)
      \/ NumMetabolites(r) >= MAX_PARTICIPANTS
      \/ reactions[r].balance \in {"missing atoms", "drain flux"})

\* deltaGR of a reaction that is not a transport: the weighted sum of the
\* transformed formation energies, protons left out
ChemicalDeltaGR(r) ==
    LET counted == {m \in Participants(r) :
                      \/ metabolites[m].formula # "H"
                      \/ (metabolites[m].seed_id # NoSeed
                          /\ metabolites[m].seed_id # "cpd00067")}
    IN SumOver(counted, [m \in MetIds |-> reactions[r].stoich[m] * met_thermo[m].deltaGf_tr])

\* thermo.calcDGtpt_rhs of a transport reaction (an external computation)
TransportDeltaGR(r) == -7

\* reaction.thermo as _prepare_reaction leaves it
ReactionThermo(r) ==
    LET comp == ReactionCompartment(r)
        base == [has |-> TRUE, isTrans |-> check_transport_reaction(r),
                 compartment |-> comp,
                 proton |-> IF comp \in DOMAIN proton_of THEN proton_of[comp] ELSE "None",
                 computed |-> FALSE, deltaGR |-> BIGM_DG, deltaGRerr |-> BIGM_DG]
    IN IF ~Computable(r) THEN base
       ELSE [base EXCEPT
               !.computed = TRUE,
               !.deltaGR = IF base.isTrans THEN TransportDeltaGR(r)
                           ELSE ChemicalDeltaGR(r),
               !.deltaGRerr = IF reactions[r].cues_err = 0 THEN DEFAULT_DGR_ERR
                              ELSE reactions[r].cues_err]

Static == UNCHANGED <<metabolites, reactions, names, kinds, lookup>>

\* the model is built (prepare, convert) before it is copied or analysed
Building == op \in {"none", "prepare", "convert"}

call_prepare ==
    /\ Building
    /\ Enter("prepare", NoArgs, "prepare_metabolite")
    /\ Static
    /\ UNCHANGED <<met_thermo, rxn_thermo, proton_of, var_dict, cons_dict, LC_vars,
                   new_model, cheb>>

\* _prepare_metabolite on the i-th metabolite
prepare_metabolite ==
    /\ pc = "prepare_metabolite"
    /\ LET m == MetOrder[i] IN
         IF metabolites[m].compartment \notin Compartments
         THEN /\ Leave("Compartment not found in model")
              /\ UNCHANGED met_thermo
         ELSE IF metabolites[m].seed_id = NoSeed
         THEN /\ Leave("seed_id missing")
              /\ UNCHANGED met_thermo
         ELSE /\ met_thermo' = [met_thermo EXCEPT ![m] = MetaboliteThermo(m)]
              /\ NextItem("prepare_metabolite", Len(MetOrder), "find_proton")
    /\ Static
    /\ UNCHANGED <<rxn_thermo, proton_of, var_dict, cons_dict, LC_vars, new_model, cheb>>

\* prepare, lines 262-274: look for the proton of every compartment
find_proton ==
    /\ pc = "find_proton"
    /\ IF DOMAIN FindProtons = {}
       THEN /\ Leave("Cannot find proton")
            /\ UNCHANGED proton_of
       ELSE /\ proton_of' = FindProtons
            /\ Goto("prepare_reaction", 1)
    /\ Static
    /\ UNCHANGED <<met_thermo, rxn_thermo, var_dict, cons_dict, LC_vars, new_model, cheb>>

\* _prepare_reaction on the i-th reaction
prepare_reaction ==
    /\ pc = "prepare_reaction"
    /\ LET r == RxnOrder[i] IN
         rxn_thermo' = [rxn_thermo EXCEPT ![r] = ReactionThermo(r)]
    /\ IF i < Len(RxnOrder) THEN Goto("prepare_reaction", i + 1) ELSE Leave("")
    /\ Static
    /\ UNCHANGED <<met_thermo, proton_of, var_dict, cons_dict, LC_vars, new_model, cheb>>


\* ------------------------------------------------------------ registry
\* a bound of a constraint: <<>> is None (open), <<v>> the value v
Open == <<>>
At(v) == <<v>>
\* a coefficient n*u, u one of "1", "RT", "1/RT"
Coef(n, u) == <<n, u>>
Hook(mdl, id) == [model |-> mdl, id |-> id]
\* the name of a typed variable or constraint: its prefix and its hook's id
Name(kind, id) == <<kind, id>>
\* the solver's flux variables of a reaction
Forward(r) == <<"forward_variable", r>>
Reverse(r) == <<"reverse_variable", r>>

ReactionVariableKinds ==
    {"DeltaG", "DeltaGstd", "ForwardUseVariable", "BackwardUseVariable",
     "ThermoDisplacement", "ReactionVariable"}
MetaboliteVariableKinds == {"LogConcentration"}
ReactionConstraintKinds ==
    {"SimultaneousUse", "NegativeDeltaG", "ForwardDeltaGCoupling",
     "BackwardDeltaGCoupling", "ForwardDirectionCoupling",
     "BackwardDirectionCoupling", "DisplacementCoupling", "ReactionConstraint"}
MetaboliteConstraintKinds == {}

\* add_variable: kind(hook, lb, ub) stored under its name
add_variable(d, kind, hook, lb, ub) ==
    Put(d, Name(kind, hook.id), [kind |-> kind, hook |-> hook, lb |-> lb, ub |-> ub])
\* add_constraint: kind(hook, expr, lb, ub) stored under its name
add_constraint(d, kind, hook, expr, lb, ub) ==
    Put(d, Name(kind, hook.id),
        [kind |-> kind, hook |-> hook, expr |-> expr, lb |-> lb, ub |-> ub])
\* the DictLists regenerate_* build: class name -> the entries of that class
GroupByKind(d) ==
    [k \in {d[n].kind : n \in DOMAIN d} |-> {n \in DOMAIN d : d[n].kind = k}]
\* the delattr loop of regenerate_* raises AttributeError: a key of the old
\* grouping has no attribute on the model
DelattrFails(kx, old) == kx.made /\ \E k \in DOMAIN old : k \notin kx.attrs
\* regenerate_constraints: the attributes of the old keys are deleted, the
\* grouping is rebuilt from _cons_dict and an attribute set for each of its keys;
\* when delattr raises, the attributes deleted so far are gone and the old
\* grouping stays
regenerate_constraints(kx, cd) ==
    IF DelattrFails(kx, kx.cons_kinds)
    THEN [kx EXCEPT !.attrs = @ \ DOMAIN kx.cons_kinds]
    ELSE [kx EXCEPT !.cons_kinds = GroupByKind(cd),
                    !.attrs = (@ \ DOMAIN kx.cons_kinds) \cup DOMAIN GroupByKind(cd)]
regenerate_variables(kx, vd) ==
    IF DelattrFails(kx, kx.var_kinds)
    THEN [kx EXCEPT !.attrs = @ \ DOMAIN kx.var_kinds]
    ELSE [kx EXCEPT !.var_kinds = GroupByKind(vd),
                    !.attrs = (@ \ DOMAIN kx.var_kinds) \cup DOMAIN GroupByKind(vd),
                    !.made = TRUE]
\* repair raises AttributeError
RepairFails(kx) == DelattrFails(kx, kx.cons_kinds) \/ DelattrFails(kx, kx.var_kinds)
\* repair: regenerate_constraints, then regenerate_variables unless the first raised
repair(kx, vd, cd) ==
    IF DelattrFails(kx, kx.cons_kinds) THEN regenerate_constraints(kx, cd)
    ELSE regenerate_variables(regenerate_constraints(kx, cd), vd)
\* a linear expression from its terms <<variable, coefficient>>, zero terms dropped
Expr(terms) ==
    [v \in {t[1] : t \in {x \in terms : x[2][1] # 0}} |->
        (CHOOSE t \in terms : t[1] = v)[2]]

\* ------------------------------------------------------------ convert
ConvertArgs ==
    {[NoArgs EXCEPT !.add_potentials = p, !.add_displacement = d] :
        <<p, d>> \in {<<FALSE, FALSE>>, <<TRUE, FALSE>>, <<FALSE, TRUE>>}}

BoundsError == "flux bounds too wide or big M not big enough"
\* mutant of ThermoMissing: a missing thermo attribute goes unnoticed
ThermoMissingUnnoticed == FALSE
\* the try block of convert: some reaction has no thermo attribute
ThermoMissing == \E r \in RxnIds : ~rxn_thermo[r].has

\* mutant of BoundsTooWide: only the upper bound is tested
BoundsTooWideUpperOnly(r) == reactions[r].upper_bound > BIGM
\* the test of convert on the flux bounds of one reaction
BoundsTooWide(r) ==
    \/ reactions[r].lower_bound < 0 - BIGM
    \/ reactions[r].upper_bound > BIGM

\* mutant of MetaboliteBranch: the biomass marker is tested first
MetaboliteBranchBiomassFirst(m) ==
    IF metabolites[m].seed_id = "cpd11416" THEN "biomass"
    ELSE IF metabolites[m].formula = "H2O" THEN "water"
    ELSE IF metabolites[m].formula = "H" THEN "proton"
    ELSE IF met_thermo[m].deltaGf_tr < DGF_LIMIT THEN "ordinary"
    ELSE "unusable"
\* what _convert_metabolite does for a metabolite: the branch it takes
MetaboliteBranch(m) ==
    IF metabolites[m].formula = "H2O" THEN "water"
    ELSE IF metabolites[m].formula = "H" THEN "proton"
    ELSE IF metabolites[m].seed_id = "cpd11416" THEN "biomass"
    ELSE IF met_thermo[m].deltaGf_tr < DGF_LIMIT THEN "ordinary"
    ELSE "unusable"

\* bounds of the LogConcentration variable of a metabolite: 0 for water, the
\* value fixed by the pH for a proton, log(c_min) and log(c_max) otherwise
LogConcentrationBounds(m) ==
    CASE MetaboliteBranch(m) = "water" -> <<0, 0>>
      [] MetaboliteBranch(m) = "proton" -> <<-16, -16>>
      [] OTHER -> <<-23, -4>>

\* H2OtRxns of _convert_reaction: a transport with water as only reactant
IsWaterTransport(r) ==
    /\ rxn_thermo[r].isTrans
    /\ Cardinality(Reactants(r)) = 1
    /\ \A m \in Reactants(r) : metabolites[m].seed_id = "cpd00001"

\* mutant of ThermoConstrained: water transports are not set apart
ThermoConstrainedIgnoringWater(r) == rxn_thermo[r].computed
\* the branch of _convert_reaction that adds thermodynamic constraints
ThermoConstrained(r) == rxn_thermo[r].computed /\ ~IsWaterTransport(r)

\* the coefficient (in units of RT) that the transport part gives to LC of m
TransportCoef(r, m) ==
    LET part(t) ==
          (IF t.reactant = m /\ metabolites[m].formula # "H" THEN 0 - t.coeff ELSE 0)
        + (IF t.product = m /\ metabolites[m].formula # "H" THEN t.coeff ELSE 0)
    IN SumOver(find_transported_mets(r), [t \in find_transported_mets(r) |-> part(t)])
\* chem_stoich: the stoichiometry left once the transported amounts are removed
ChemStoich(r, m) ==
    LET part(t) == (IF t.reactant = m THEN t.coeff ELSE 0)
                 + (IF t.product = m THEN 0 - t.coeff ELSE 0)
    IN reactions[r].stoich[m]
       + SumOver(find_transported_mets(r), [t \in find_transported_mets(r) |-> part(t)])

\* the metabolites whose entry of LC_vars (or of P_vars, in potential mode)
\* the energy balance of a reaction reads
LookedUp(r, add_potentials) ==
    IF rxn_thermo[r].isTrans
    THEN {m \in MetIds :
            \/ \E t \in find_transported_mets(r) :
                 m \in {t.reactant, t.product} /\ metabolites[m].formula # "H"
            \/ ChemStoich(r, m) # 0 /\ metabolites[m].formula \notin {"H", "H2O"}}
    ELSE {m \in Participants(r) : metabolites[m].formula \notin {"H", "H2O"}}

\* the lookups of the energy balance that raise KeyError: P_vars is empty in
\* potential mode, LC_vars holds what the metabolite pass registered
FailedLookups(r, add_potentials) ==
    IF ~rxn_thermo[r].isTrans /\ add_potentials
    THEN LookedUp(r, add_potentials)
    ELSE LookedUp(r, add_potentials) \ LC_vars

\* CLHS of the NegativeDeltaG constraint: DGoR - DGR + LC_TransMet + LC_ChemMet
NegativeDeltaGExpr(r, add_potentials) ==
    LET lc(m) ==
          IF rxn_thermo[r].isTrans
          THEN TransportCoef(r, m)
               + (IF metabolites[m].formula \notin {"H", "H2O"}
                  THEN ChemStoich(r, m) ELSE 0)
          ELSE IF add_potentials THEN 0
          ELSE IF metabolites[m].formula \notin {"H", "H2O"}
               THEN reactions[r].stoich[m] ELSE 0
    IN Expr({<<Name("DeltaGstd", r), Coef(1, "1")>>,
             <<Name("DeltaG", r), Coef(-1, "1")>>}
            \cup {<<Name("LogConcentration", m), Coef(lc(m), "RT")>> : m \in MetIds})

Self(id) == Hook("self", id)

\* the typed variables of the thermo-constrained branch: DeltaG and DeltaGstd
ThermoVariables(d, r) ==
    LET d1 == add_variable(d, "DeltaG", Self(r), 0 - BIGM_THERMO, BIGM_THERMO)
    IN add_variable(d1, "DeltaGstd", Self(r),
                    rxn_thermo[r].deltaGR - rxn_thermo[r].deltaGRerr,
                    rxn_thermo[r].deltaGR + rxn_thermo[r].deltaGRerr)
\* the optional ThermoDisplacement variable
DisplacementVariable(d, r) ==
    add_variable(d, "ThermoDisplacement", Self(r), 0 - BIGM_P, BIGM_P)
\* the use variables FU_rxn and BU_rxn, binary
UseVariables(d, r) ==
    LET d1 == add_variable(d, "ForwardUseVariable", Self(r), 0, 1)
    IN add_variable(d1, "BackwardUseVariable", Self(r), 0, 1)

\* NegativeDeltaG: CLHS = 0
NegativeDeltaG(d, r, add_potentials) ==
    add_constraint(d, "NegativeDeltaG", Self(r),
                   NegativeDeltaGExpr(r, add_potentials), At(0), At(0))
\* DisplacementCoupling: lngamma - 1/RT * DGR = 0
DisplacementCoupling(d, r) ==
    add_constraint(d, "DisplacementCoupling", Self(r),
                   Expr({<<Name("ThermoDisplacement", r), Coef(1, "1")>>,
                         <<Name("DeltaG", r), Coef(-1, "1/RT")>>}),
                   At(0), At(0))
\* mutant of ForwardDeltaGCoupling: the tolerance epsilon is left out
ForwardDeltaGCouplingNoEpsilon(d, r) ==
    add_constraint(d, "ForwardDeltaGCoupling", Self(r),
                   Expr({<<Name("DeltaG", r), Coef(1, "1")>>,
                         <<Name("ForwardUseVariable", r), Coef(BIGM_THERMO, "1")>>}),
                   Open, At(BIGM_THERMO))
\* ForwardDeltaGCoupling: DGR + FU_rxn * BIGM_THERMO <= BIGM_THERMO - epsilon
ForwardDeltaGCoupling(d, r) ==
    add_constraint(d, "ForwardDeltaGCoupling", Self(r),
                   Expr({<<Name("DeltaG", r), Coef(1, "1")>>,
                         <<Name("ForwardUseVariable", r), Coef(BIGM_THERMO, "1")>>}),
                   Open, At(BIGM_THERMO - epsilon))
\* BackwardDeltaGCoupling: BU_rxn * BIGM_THERMO - DGR <= BIGM_THERMO - epsilon
BackwardDeltaGCoupling(d, r) ==
    add_constraint(d, "BackwardDeltaGCoupling", Self(r),
                   Expr({<<Name("BackwardUseVariable", r), Coef(BIGM_THERMO, "1")>>,
                         <<Name("DeltaG", r), Coef(-1, "1")>>}),
                   Open, At(BIGM_THERMO - epsilon))
\* mutant of SimultaneousUse: a sign slip, FU_rxn - BU_rxn
SimultaneousUseSignSlip(d, r) ==
    add_constraint(d, "SimultaneousUse", Self(r),
                   Expr({<<Name("ForwardUseVariable", r), Coef(1, "1")>>,
                         <<Name("BackwardUseVariable", r), Coef(-1, "1")>>}),
                   At(0), At(1))
\* SimultaneousUse: 0 <= FU_rxn + BU_rxn <= 1
SimultaneousUse(d, r) ==
    add_constraint(d, "SimultaneousUse", Self(r),
                   Expr({<<Name("ForwardUseVariable", r), Coef(1, "1")>>,
                         <<Name("BackwardUseVariable", r), Coef(1, "1")>>}),
                   At(0), At(1))
\* ForwardDirectionCoupling: F_rxn - FU_rxn * BIGM <= 0
ForwardDirectionCoupling(d, r) ==
    add_constraint(d, "ForwardDirectionCoupling", Self(r),
                   Expr({<<Forward(r), Coef(1, "1")>>,
                         <<Name("ForwardUseVariable", r), Coef(0 - BIGM, "1")>>}),
                   Open, At(0))
\* BackwardDirectionCoupling: R_rxn - BU_rxn * BIGM <= 0
BackwardDirectionCoupling(d, r) ==
    add_constraint(d, "BackwardDirectionCoupling", Self(r),
                   Expr({<<Reverse(r), Coef(1, "1")>>,
                         <<Name("BackwardUseVariable", r), Coef(0 - BIGM, "1")>>}),
                   Open, At(0))

\* the constraints every reaction gets, lines 523-539
UseConstraints(d, r) ==
    BackwardDirectionCoupling(ForwardDirectionCoupling(SimultaneousUse(d, r), r), r)
\* the constraints of the thermo-constrained branch, lines 474-509
ThermoConstraints(d, r, a) ==
    LET d1 == NegativeDeltaG(d, r, a.add_potentials)
        d2 == IF a.add_displacement THEN DisplacementCoupling(d1, r) ELSE d1
    IN BackwardDeltaGCoupling(ForwardDeltaGCoupling(d2, r), r)

call_convert ==
    /\ Building
    /\ \E a \in ConvertArgs : Enter("convert", a, "check_bounds")
    /\ Static
    /\ UNCHANGED <<met_thermo, rxn_thermo, proton_of, var_dict, cons_dict, LC_vars,
                   new_model, cheb>>

\* convert, lines 560-566: the flux bounds of every reaction
check_bounds ==
    /\ pc = "check_bounds"
    /\ IF \E r \in RxnIds : BoundsTooWide(r)
       THEN Leave(BoundsError)
       ELSE Goto("check_thermo", 1)
    /\ Static
    /\ UNCHANGED <<met_thermo, rxn_thermo, proton_of, var_dict, cons_dict, LC_vars,
                   new_model, cheb>>

\* lines 585-592: re.sub(r'[\[\(]', '_', .) then re.sub(r'[\]\)]', '', .)
Brackets == {"[", "]", "(", ")"}
Sanitized(text) ==
    LET opened == [k \in 1..Len(text) |-> IF text[k] \in {"[", "("} THEN "_" ELSE text[k]]
    IN SelectSeq(opened, LAMBDA c : c \notin {"]", ")"})
\* convert, lines 573-595: every reaction has a thermo record; the name of every
\* metabolite and reaction is rewritten without brackets; LC_vars is reset
check_thermo ==
    /\ pc = "check_thermo"
    /\ IF ThermoMissing
       THEN /\ Leave("Reaction thermo data missing")
            /\ UNCHANGED <<LC_vars, names>>
       ELSE /\ Goto("convert_metabolite", 1)
            /\ names' = [e \in DOMAIN names |-> Sanitized(names[e])]
            /\ LC_vars' = {}
    /\ UNCHANGED <<metabolites, reactions, kinds, lookup>>
    /\ UNCHANGED <<met_thermo, rxn_thermo, proton_of, var_dict, cons_dict,
                   new_model, cheb>>

\* _convert_metabolite on the i-th metabolite
convert_metabolite ==
    /\ pc = "convert_metabolite"
    /\ LET m == MetOrder[i]
           b == MetaboliteBranch(m)
           lc == add_variable(var_dict, "LogConcentration", Self(m),
                              LogConcentrationBounds(m)[1], LogConcentrationBounds(m)[2])
       IN IF ~met_thermo[m].has
          THEN \* met.thermo is read before anything is added
               /\ UNCHANGED <<var_dict, LC_vars>>
               /\ Leave("AttributeError")
          ELSE IF b \in {"biomass", "unusable"}
          THEN /\ UNCHANGED <<var_dict, LC_vars>>
               /\ NextItem("convert_metabolite", Len(MetOrder), "convert_reaction")
          ELSE IF b = "ordinary" /\ args.add_potentials
          THEN \* add_variable('P_' + met.id, P_lb, P_ub): one argument too many
               /\ var_dict' = lc
               /\ UNCHANGED LC_vars
               /\ Leave("TypeError")
          ELSE /\ var_dict' = lc
               /\ LC_vars' = LC_vars \cup {m}
               /\ NextItem("convert_metabolite", Len(MetOrder), "convert_reaction")
    /\ Static
    /\ UNCHANGED <<met_thermo, rxn_thermo, proton_of, cons_dict, new_model, cheb>>

\* _convert_reaction on the i-th reaction
convert_reaction ==
    /\ pc = "convert_reaction"
    /\ LET r == RxnOrder[i] IN
         IF ThermoConstrained(r)
         THEN IF FailedLookups(r, args.add_potentials) # {}
              THEN /\ var_dict' = ThermoVariables(var_dict, r)
                   /\ UNCHANGED cons_dict
                   /\ Leave("KeyError")
              ELSE /\ var_dict' =
                        LET d1 == ThermoVariables(var_dict, r)
                            d2 == IF args.add_displacement
                                  THEN DisplacementVariable(d1, r) ELSE d1
                        IN UseVariables(d2, r)
                   /\ cons_dict' = UseConstraints(ThermoConstraints(cons_dict, r, args), r)
                   /\ NextItem("convert_reaction", Len(RxnOrder), "repair")
         ELSE /\ var_dict' = UseVariables(var_dict, r)
              /\ cons_dict' = UseConstraints(cons_dict, r)
              /\ NextItem("convert_reaction", Len(RxnOrder), "repair")
    /\ Static
    /\ UNCHANGED <<met_thermo, rxn_thermo, proton_of, LC_vars, new_model, cheb>>

\* convert, line 613: repair() ends the conversion
convert_repair ==
    /\ pc = "repair" /\ op = "convert"
    /\ kinds' = repair(kinds, var_dict, cons_dict)
    /\ Leave(IF RepairFails(kinds) THEN "AttributeError" ELSE "")
    /\ UNCHANGED <<metabolites, reactions, names, lookup>>
    /\ UNCHANGED <<met_thermo, rxn_thermo, proton_of, var_dict, cons_dict, LC_vars,
                   new_model, cheb>>

\* ------------------------------------------------------------ copy
\* mutant of CopyHook: the hook of the original is aliased
CopyHookAliased(h) == h
\* the hook of a copied entry: the entity of the new model with the same id
CopyHook(h) == Hook("new", h.id)
\* the bounds of a re-created variable: those of the variable of the same name
\* in the cloned solver
CopiedVariableBounds(v) == <<v.lb, v.ub>>
\* lines 872-887: the variable re-created in the new model
CopyVariable(v) ==
    [kind |-> v.kind, hook |-> CopyHook(v.hook),
     lb |-> CopiedVariableBounds(v)[1], ub |-> CopiedVariableBounds(v)[2]]
\* lines 889-909: the constraint re-created in the new model, with the
\* expression of the cloned solver and the bounds of the original
CopyConstraint(c) ==
    [kind |-> c.kind, hook |-> CopyHook(c.hook), expr |-> c.expr,
     lb |-> c.lb, ub |-> c.ub]
\* the isinstance tests of copy
CopyableVariable(v) == v.kind \in ReactionVariableKinds \cup MetaboliteVariableKinds
CopyableConstraint(c) == c.kind \in ReactionConstraintKinds \cup MetaboliteConstraintKinds
Copyable(vd, cd) ==
    /\ \A n \in DOMAIN vd : CopyableVariable(vd[n])
    /\ \A n \in DOMAIN cd : CopyableConstraint(cd[n])
CopyVariables(vd) == [n \in DOMAIN vd |-> CopyVariable(vd[n])]
CopyConstraints(cd) == [n \in DOMAIN cd |-> CopyConstraint(cd[n])]

call_copy ==
    /\ op \in {"convert", "chebyshev_center"}
    /\ Enter("copy", NoArgs, "copy_variables")
    /\ new_model' = NoCopy
    /\ Static
    /\ UNCHANGED <<met_thermo, rxn_thermo, proton_of, var_dict, cons_dict, LC_vars, cheb>>

\* copy, lines 858-887: a new ThermoModel on the cloned solver, the variables
copy_variables ==
    /\ pc = "copy_variables"
    /\ IF \E n \in DOMAIN var_dict : ~CopyableVariable(var_dict[n])
       THEN /\ Leave("TypeError")
            /\ UNCHANGED new_model
       ELSE /\ new_model' = [NoCopy EXCEPT !.var_dict = CopyVariables(var_dict)]
            /\ Goto("copy_constraints", 1)
    /\ Static
    /\ UNCHANGED <<met_thermo, rxn_thermo, proton_of, var_dict, cons_dict, LC_vars, cheb>>

\* copy, lines 889-912: the constraints, then repair
copy_constraints ==
    /\ pc = "copy_constraints"
    /\ IF \E n \in DOMAIN cons_dict : ~CopyableConstraint(cons_dict[n])
       THEN /\ Leave("TypeError")
            /\ new_model' = NoCopy
       ELSE /\ new_model' = [new_model EXCEPT
                               !.made = TRUE,
                               !.cons_dict = CopyConstraints(cons_dict),
                               !.kinds = repair(NoKinds, new_model.var_dict,
                                                CopyConstraints(cons_dict))]
            /\ Leave("")
    /\ Static
    /\ UNCHANGED <<met_thermo, rxn_thermo, proton_of, var_dict, cons_dict, LC_vars, cheb>>

Next ==
    \/ call_prepare \/ prepare_metabolite \/ find_proton \/ prepare_reaction
    \/ call_convert \/ check_bounds \/ check_thermo \/ convert_metabolite
    \/ convert_reaction \/ convert_repair
    \/ call_copy \/ copy_variables \/ copy_constraints
Spec == Init /\ [][Next]_vars

\* ------------------------------------------------------------ direct registry calls
DirectCalls ==
    {"add_variable", "add_constraint", "remove_variable", "remove_constraint",
     "repair", "get_variables_of_type", "get_constraints_of_type"}
\* a caller works on the registry of a model it has converted
Direct(name, exc) ==
    /\ Idle
    /\ op \in {"convert"} \cup DirectCalls
    /\ lookup.calls < MaxRegistryCalls
    /\ op' = name
    /\ args' = NoArgs
    /\ pre' = Registry
    /\ raised' = exc
    /\ UNCHANGED <<pc, i>>
    /\ UNCHANGED <<metabolites, reactions, met_thermo, rxn_thermo, proton_of, LC_vars,
                   new_model, cheb, names>>
Counted == [lookup EXCEPT !.calls = @ + 1]
\* the bounds a caller gives its constraint: '>=' form, no bound at all
UserBounds == {<<At(0), Open>>, <<Open, Open>>}
\* the expression of a caller's constraint on a reaction: 3*FU - 4*BU
UserExpr(r) ==
    Expr({<<Name("ForwardUseVariable", r), Coef(3, "1")>>,
          <<Name("BackwardUseVariable", r), Coef(-4, "1")>>})

\* model.add_variable(ReactionVariable, reaction, lb=0, ub=10)
call_add_variable ==
    /\ Direct("add_variable", "")
    /\ var_dict' = add_variable(var_dict, "ReactionVariable", Self(RxnOrder[1]), 0, 10)
    /\ lookup' = Counted
    /\ UNCHANGED <<cons_dict, kinds>>
\* model.add_constraint(ReactionConstraint, reaction, expr, lb=.., ub=..)
call_add_constraint ==
    /\ \E b \in UserBounds :
         cons_dict' = add_constraint(cons_dict, "ReactionConstraint", Self(RxnOrder[1]),
                                     UserExpr(RxnOrder[1]), b[1], b[2])
    /\ Direct("add_constraint", "")
    /\ lookup' = Counted
    /\ UNCHANGED <<var_dict, kinds>>
\* model.remove_variable(var), var one of the registry
call_remove_variable ==
    /\ \E n \in DOMAIN var_dict :
         var_dict' = [x \in (DOMAIN var_dict) \ {n} |-> var_dict[x]]
    /\ Direct("remove_variable", "")
    /\ lookup' = Counted
    /\ UNCHANGED <<cons_dict, kinds>>
\* model.remove_constraint(cons), cons one of the registry
call_remove_constraint ==
    /\ \E n \in DOMAIN cons_dict :
         cons_dict' = [x \in (DOMAIN cons_dict) \ {n} |-> cons_dict[x]]
    /\ Direct("remove_constraint", "")
    /\ lookup' = Counted
    /\ UNCHANGED <<var_dict, kinds>>
\* model.repair()
call_repair ==
    /\ Direct("repair", IF RepairFails(kinds) THEN "AttributeError" ELSE "")
    /\ kinds' = repair(kinds, var_dict, cons_dict)
    /\ lookup' = Counted
    /\ UNCHANGED <<var_dict, cons_dict>>
\* the kinds a caller looks up
LookupVariableKinds == {"DeltaG", "ThermoDisplacement", "ReactionVariable"}
LookupConstraintKinds == {"NegativeDeltaG", "DisplacementCoupling", "ReactionConstraint"}
\* self._var_kinds[key] on a defaultdict: a missing key is created with an
\* empty list; without _var_kinds (no repair yet) the attribute access raises
GetItem(d, k) == IF k \in DOMAIN d THEN d ELSE Put(d, k, {})
\* model.get_variables_of_type(K)
get_variables_of_type ==
    \E k \in LookupVariableKinds :
        /\ Direct("get_variables_of_type", IF kinds.made THEN "" ELSE "AttributeError")
        /\ kinds' = IF kinds.made
                    THEN [kinds EXCEPT !.var_kinds = GetItem(@, k)]
                    ELSE kinds
        /\ lookup' = [calls |-> lookup.calls + 1, kind |-> k,
                      result |-> IF kinds.made THEN GetItem(kinds.var_kinds, k)[k]
                                 ELSE {}]
        /\ UNCHANGED <<var_dict, cons_dict>>
\* model.get_constraints_of_type(K)
get_constraints_of_type ==
    \E k \in LookupConstraintKinds :
        /\ Direct("get_constraints_of_type", IF kinds.made THEN "" ELSE "AttributeError")
        /\ kinds' = IF kinds.made
                    THEN [kinds EXCEPT !.cons_kinds = GetItem(@, k)]
                    ELSE kinds
        /\ lookup' = [calls |-> lookup.calls + 1, kind |-> k,
                      result |-> IF kinds.made THEN GetItem(kinds.cons_kinds, k)[k]
                                 ELSE {}]
        /\ UNCHANGED <<var_dict, cons_dict>>

NextRegistry ==
    \/ Next
    \/ call_add_variable \/ call_add_constraint \/ call_remove_variable
    \/ call_remove_constraint \/ call_repair
    \/ get_variables_of_type \/ get_constraints_of_type

\* ------------------------------------------------------------ chebyshev_center
\* models on which chebyshev_center is explored
AnalysisModels ==
    {<<[m1 |-> Met("X", "cpdX", "c", TRUE), m2 |-> b,
        m3 |-> Met("H", "cpd00067", "c", TRUE)],
       [r1 |-> x, r2 |-> PlainRxn(DrainOf("m2"))]>> :
        b \in {Met("X", "cpdY", "c", TRUE), Met("X", "cpdX", "e", TRUE)},
        x \in {PlainRxn([m1 |-> -1, m2 |-> 1, m3 |-> 0]), PlainRxn(DrainOf("m1"))}}
InitAnalysis ==
    /\ \E mdl \in AnalysisModels :
         /\ metabolites = mdl[1]
         /\ reactions = mdl[2]
    /\ met_thermo = [m \in MetIds |-> NoMetThermo]
    /\ rxn_thermo = [r \in RxnIds |-> NoRxnThermo]
    /\ proton_of = EmptyDict
    /\ var_dict = EmptyDict
    /\ cons_dict = EmptyDict
    /\ LC_vars = {}
    /\ new_model = NoCopy
    /\ cheb = NoCheb
    /\ op = "none"
    /\ pc = "idle"
    /\ i = 0
    /\ raised = ""
    /\ args = NoArgs
    /\ pre = <<EmptyDict, EmptyDict>>
    /\ names = SourceNames
    /\ kinds = NoKinds
    /\ lookup = NoLookup

Radius == Name("ChebyshevRadius", "radius")
\* the constraint kinds a caller names in include and exclude
KindFilters == {{}, ReactionConstraintKinds}
\* the variables argument: the names of the variables of one kind
TargetKinds == {"DeltaG", "ForwardUseVariable"}
ChebyshevArgs ==
    {[NoArgs EXCEPT !.inplace = ip, !.big_m = bm, !.include = inc, !.exclude = exc,
                    !.variables = {n \in DOMAIN var_dict : var_dict[n].kind = k}] :
        ip \in BOOLEAN, bm \in {CHEBYSHEV_BIGM, 10}, inc \in KindFilters,
        exc \in {{}, {"BackwardDeltaGCoupling"}}, k \in TargetKinds}

\* is_inequality: one of the bounds is None
is_inequality(c) == c.lb = Open \/ c.ub = Open
\* line 84: the constraint is skipped unless its kind is in include and not in exclude
Filtered(c, include, exclude) == c.kind \in exclude \/ c.kind \notin include
\* lines 88-96: the squared Euclidean norm of the coefficients of the target
\* variables in a constraint (0: no target variable in it)
NormSquared(c, targets) ==
    LET hit == (DOMAIN c.expr) \cap targets
    IN SumOver(hit, [v \in hit |-> c.expr[v][1] * c.expr[v][1]])
\* cons_to_edit: name -> squared norm, for the constraints the loop keeps
cons_to_edit(cd, a) ==
    LET keep == {n \in DOMAIN cd :
                   /\ ~Filtered(cd[n], a.include, a.exclude)
                   /\ is_inequality(cd[n])
                   /\ (DOMAIN cd[n].expr) \cap a.variables # {}}
    IN [n \in keep |-> NormSquared(cd[n], a.variables)]
\* cons.change_expr(new_expr): the constraint with the new expression, its
\* name, hook and bounds kept
change_expr(c, new_expr) == [c EXCEPT !.expr = new_expr]
\* mutant of ChangeExpr: the radius term is added whatever bound is open
ChangeExprAlwaysAdded(c, n2) ==
    change_expr(c, [v \in (DOMAIN c.expr) \cup {Radius} |->
                      IF v = Radius THEN Coef(<<n2>>, "sqrt") ELSE c.expr[v]])
\* lines 105-114: the expression with a_sq*r added ('<=' form, lb is None) or
\* subtracted ('>=' form, ub is None); the coefficient of r is the list of the
\* signed squared norms whose roots it sums
ChangeExpr(c, n2) ==
    LET signed == IF c.lb = Open THEN n2 ELSE 0 - n2
        old == IF Radius \in DOMAIN c.expr THEN c.expr[Radius][1] ELSE <<>>
    IN change_expr(c, [v \in (DOMAIN c.expr) \cup {Radius} |->
                         IF v = Radius THEN Coef(Append(old, signed), "sqrt")
                         ELSE c.expr[v]])
EditConstraints(cd, edits) ==
    [n \in DOMAIN cd |-> IF n \in DOMAIN edits THEN ChangeExpr(cd[n], edits[n]) ELSE cd[n]]
\* the radius variable: ChebyshevRadius hooked to the caller's model, [0, big_m]
RadiusVariable(d, big_m) ==
    Put(d, Radius, [kind |-> "ChebyshevRadius", hook |-> Hook("self", "radius"),
                    lb |-> 0, ub |-> big_m])
\* what the solver can return for the radius: its upper bound when r is in no
\* constraint, else a value the constraints decide
RadiusValues(big_m, edits) ==
    IF DOMAIN edits = {} THEN {big_m}
    ELSE {0, big_m - optimality - 1, big_m - optimality, big_m}

\* the registry chebyshev_center works on: the caller's or the clone's
Target == IF args.inplace THEN Registry ELSE <<new_model.var_dict, new_model.cons_dict>>

call_chebyshev_center ==
    /\ pc = "idle" /\ raised = ""
    /\ op \in {"convert", "copy", "chebyshev_center", "add_constraint"}
    /\ cheb.calls < MaxChebyshevCalls
    /\ \E a \in ChebyshevArgs : Enter("chebyshev_center", a, "cheb_copy")
    /\ cheb' = [NoCheb EXCEPT !.calls = cheb.calls + 1]
    /\ Static
    /\ UNCHANGED <<met_thermo, rxn_thermo, proton_of, var_dict, cons_dict, LC_vars,
                   new_model>>

\* lines 53-64: the clone (copy, then optimize) unless inplace; the target variables
cheb_copy ==
    /\ pc = "cheb_copy"
    /\ IF args.inplace
       THEN /\ UNCHANGED new_model
            /\ IF args.variables = {} THEN Leave("IndexError") ELSE Goto("cheb_radius", 1)
       ELSE IF ~Copyable(var_dict, cons_dict)
       THEN /\ UNCHANGED new_model
            /\ Leave("TypeError")
       ELSE /\ new_model' = [made |-> TRUE, var_dict |-> CopyVariables(var_dict),
                             cons_dict |-> CopyConstraints(cons_dict),
                             kinds |-> repair(NoKinds, CopyVariables(var_dict),
                                              CopyConstraints(cons_dict))]
            /\ \/ Leave("SolverError")
               \/ IF args.variables = {} THEN Leave("IndexError")
                  ELSE Goto("cheb_radius", 1)
    /\ Static
    /\ UNCHANGED <<met_thermo, rxn_thermo, proton_of, var_dict, cons_dict, LC_vars, cheb>>

\* lines 66-72: the radius variable is registered in the target model
cheb_radius ==
    /\ pc = "cheb_radius"
    /\ IF args.inplace
       THEN /\ var_dict' = RadiusVariable(var_dict, args.big_m)
            /\ UNCHANGED new_model
       ELSE /\ new_model' = [new_model EXCEPT
                               !.var_dict = RadiusVariable(new_model.var_dict, args.big_m)]
            /\ UNCHANGED var_dict
    /\ Goto("cheb_find", 1)
    /\ Static
    /\ UNCHANGED <<met_thermo, rxn_thermo, proton_of, cons_dict, LC_vars, cheb>>

\* lines 81-98: the constraints to edit and the norm of each
cheb_find ==
    /\ pc = "cheb_find"
    /\ cheb' = [cheb EXCEPT !.edited = cons_to_edit(Target[2], args)]
    /\ Goto("cheb_edit", 1)
    /\ Static
    /\ UNCHANGED <<met_thermo, rxn_thermo, proton_of, var_dict, cons_dict, LC_vars,
                   new_model>>

\* lines 103-114: every constraint found is rewritten
cheb_edit ==
    /\ pc = "cheb_edit"
    /\ IF args.inplace
       THEN /\ cons_dict' = EditConstraints(cons_dict, cheb.edited)
            /\ UNCHANGED new_model
       ELSE /\ new_model' = [new_model EXCEPT
                               !.cons_dict = EditConstraints(new_model.cons_dict, cheb.edited)]
            /\ UNCHANGED cons_dict
    /\ Goto("cheb_optimize", 1)
    /\ Static
    /\ UNCHANGED <<met_thermo, rxn_thermo, proton_of, var_dict, LC_vars, cheb>>

\* lines 139-142: repair, maximise r, optimize; the solver fails or returns a radius
cheb_optimize ==
    /\ pc = "cheb_optimize"
    /\ IF args.inplace
       THEN /\ kinds' = repair(kinds, var_dict, cons_dict)
            /\ UNCHANGED new_model
       ELSE /\ new_model' = [new_model EXCEPT
                               !.kinds = repair(@, new_model.var_dict, new_model.cons_dict)]
            /\ UNCHANGED kinds
    /\ IF RepairFails(IF args.inplace THEN kinds ELSE new_model.kinds)
       THEN /\ Leave("AttributeError")
            /\ UNCHANGED cheb
       ELSE \/ /\ Leave("SolverError")
               /\ UNCHANGED cheb
            \/ \E x \in RadiusValues(args.big_m, cheb.edited) :
                 /\ cheb' = [cheb EXCEPT !.radius = x]
                 /\ Goto("cheb_report", 1)
    /\ UNCHANGED <<metabolites, reactions, names, lookup>>
    /\ UNCHANGED <<met_thermo, rxn_thermo, proton_of, var_dict, cons_dict, LC_vars>>

\* lines 148-150: the value returned, pd.Series(var_values): one entry per target
\* variable under its name, and nothing else (radius: <<>> absent, <<x>> value x)
Result(targets) == [series |-> targets, radius |-> <<>>]
\* lines 144-150: the warning when the radius is at its upper bound, the result.
\* The name `warn` is bound nowhere in the module: calling it raises NameError.
cheb_report ==
    /\ pc = "cheb_report"
    /\ IF Target[1][Radius].ub - cheb.radius <= optimality
       THEN /\ Leave("NameError")
            /\ UNCHANGED cheb
       ELSE /\ cheb' = [cheb EXCEPT !.returned = TRUE, !.result = Result(args.variables)]
            /\ Leave("")
    /\ Static
    /\ UNCHANGED <<met_thermo, rxn_thermo, proton_of, var_dict, cons_dict, LC_vars,
                   new_model>>

NextAnalysis ==
    \/ Next
    \/ call_add_constraint
    \/ call_chebyshev_center \/ cheb_copy \/ cheb_radius \/ cheb_find \/ cheb_edit
    \/ cheb_optimize \/ cheb_report
SpecAnalysis == InitAnalysis /\ [][NextAnalysis]_vars
SpecRegistry == InitAnalysis /\ [][NextRegistry]_vars

\* ------------------------------------------------------------ observation
PrepareDone == op = "prepare" /\ pc = "idle" /\ raised = ""
ConvertDone == op = "convert" /\ pc = "idle" /\ raised = ""
\* the reactions _convert_reaction has finished in the running or last convert
ConvertedRxns ==
    IF op = "convert" /\ pc = "convert_reaction" THEN {RxnOrder[k] : k \in 1..(i - 1)}
    ELSE IF (op = "convert" /\ pc = "repair") \/ ConvertDone THEN RxnIds
    ELSE {}
\* the metabolites _convert_metabolite has finished in the running or last convert
ConvertedMets ==
    IF op = "convert" /\ pc = "convert_metabolite" THEN {MetOrder[k] : k \in 1..(i - 1)}
    ELSE IF (op = "convert" /\ pc \in {"convert_reaction", "repair"}) \/ ConvertDone
    THEN MetIds
    ELSE {}
VarsOf(d, kind, id) == {n \in DOMAIN d : d[n].kind = kind /\ d[n].hook.id = id}
ConsOf(d, kind, id) == {n \in DOMAIN d : d[n].kind = kind /\ d[n].hook.id = id}
\* the value of a linear expression with plain coefficients under an assignment
Value(e, asg) == SumOver(DOMAIN e, [v \in DOMAIN e |-> e[v][1] * asg[v]])
Satisfies(c, asg) ==
    /\ c.lb = Open \/ c.lb[1] <= Value(c.expr, asg)
    /\ c.ub = Open \/ Value(c.expr, asg) <= c.ub[1]
FU(r) == Name("ForwardUseVariable", r)
BU(r) == Name("BackwardUseVariable", r)
DG(r) == Name("DeltaG", r)
\* values of DeltaG around 0, -epsilon, epsilon and the big-M bounds
DeltaGValues ==
    {0 - BIGM_THERMO, 0 - epsilon - 1, 0 - epsilon, 0, epsilon, epsilon + 1, BIGM_THERMO}

\* ------------------------------------------------------------ claims
\* C1: every reaction convert has processed, thermo-constrained or not, has one
\* ForwardUseVariable and one BackwardUseVariable hooked to it, exactly one
\* SimultaneousUse constraint FU + BU with bounds [0, 1], exactly one
\* ForwardDirectionCoupling constraint forward_flux - BIGM*FU <= 0 and exactly
\* one BackwardDirectionCoupling constraint reverse_flux - BIGM*BU <= 0; no
\* assignment of FU and BU that satisfies SimultaneousUse has FU = 1 and BU = 1.
C1_UseConstraints ==
    \A r \in ConvertedRxns :
        /\ VarsOf(var_dict, "ForwardUseVariable", r) = {FU(r)}
        /\ VarsOf(var_dict, "BackwardUseVariable", r) = {BU(r)}
        /\ var_dict[FU(r)].hook = Self(r) /\ var_dict[BU(r)].hook = Self(r)
        /\ ConsOf(cons_dict, "SimultaneousUse", r) = {Name("SimultaneousUse", r)}
        /\ LET su == cons_dict[Name("SimultaneousUse", r)] IN
             /\ su.expr = (FU(r) :> Coef(1, "1")) @@ (BU(r) :> Coef(1, "1"))
             /\ su.lb = At(0) /\ su.ub = At(1)
             /\ \A asg \in [{FU(r), BU(r)} -> 0..1] :
                  Satisfies(su, asg) => ~(asg[FU(r)] = 1 /\ asg[BU(r)] = 1)
        /\ ConsOf(cons_dict, "ForwardDirectionCoupling", r)
             = {Name("ForwardDirectionCoupling", r)}
        /\ LET c == cons_dict[Name("ForwardDirectionCoupling", r)] IN
             /\ c.expr = (Forward(r) :> Coef(1, "1")) @@ (FU(r) :> Coef(0 - BIGM, "1"))
             /\ c.lb = Open /\ c.ub = At(0)
        /\ ConsOf(cons_dict, "BackwardDirectionCoupling", r)
             = {Name("BackwardDirectionCoupling", r)}
        /\ LET c == cons_dict[Name("BackwardDirectionCoupling", r)] IN
             /\ c.expr = (Reverse(r) :> Coef(1, "1")) @@ (BU(r) :> Coef(0 - BIGM, "1"))
             /\ c.lb = Open /\ c.ub = At(0)
\* C1 witness: a finished conversion with a reaction on each branch
C1_Witness ==
    /\ ConvertDone
    /\ \E r \in RxnIds : ThermoConstrained(r)
    /\ \E r \in RxnIds : ~ThermoConstrained(r)

\* C2 as stated: every processed reaction with computed = true has its
\* ForwardDeltaGCoupling and BackwardDeltaGCoupling constraints.
C2_EveryComputedReactionCoupled ==
    \A r \in ConvertedRxns :
        rxn_thermo[r].computed =>
            /\ Name("ForwardDeltaGCoupling", r) \in DOMAIN cons_dict
            /\ Name("BackwardDeltaGCoupling", r) \in DOMAIN cons_dict
\* C2 amended: every processed reaction with computed = true that is not a
\* water transport has the constraint DeltaG + BIGM_THERMO*FU <= BIGM_THERMO -
\* epsilon and the constraint BIGM_THERMO*BU - DeltaG <= BIGM_THERMO - epsilon,
\* so that FU = 1 forces DeltaG <= -epsilon and BU = 1 forces DeltaG >= epsilon.
C2_DeltaGCoupling ==
    \A r \in ConvertedRxns :
        (rxn_thermo[r].computed /\ ~IsWaterTransport(r)) =>
            /\ Name("ForwardDeltaGCoupling", r) \in DOMAIN cons_dict
            /\ Name("BackwardDeltaGCoupling", r) \in DOMAIN cons_dict
            /\ LET f == cons_dict[Name("ForwardDeltaGCoupling", r)]
                   b == cons_dict[Name("BackwardDeltaGCoupling", r)]
               IN /\ f.expr = (DG(r) :> Coef(1, "1")) @@ (FU(r) :> Coef(BIGM_THERMO, "1"))
                  /\ f.lb = Open /\ f.ub = At(BIGM_THERMO - epsilon)
                  /\ b.expr = (BU(r) :> Coef(BIGM_THERMO, "1")) @@ (DG(r) :> Coef(-1, "1"))
                  /\ b.lb = Open /\ b.ub = At(BIGM_THERMO - epsilon)
                  /\ \A u \in 0..1, g \in DeltaGValues :
                       /\ (Satisfies(f, (DG(r) :> g) @@ (FU(r) :> u)) /\ u = 1)
                            => g <= 0 - epsilon
                       /\ (Satisfies(b, (DG(r) :> g) @@ (BU(r) :> u)) /\ u = 1)
                            => g >= epsilon
\* C2 witness: a finished conversion with a computed reaction that is no water
\* transport
C2_Witness ==
    /\ ConvertDone
    /\ \E r \in RxnIds : rxn_thermo[r].computed /\ ~IsWaterTransport(r)

\* C3: a processed reaction has the energy-balance set (DeltaG in
\* [-BIGM_THERMO, BIGM_THERMO], DeltaGstd in [deltaGR - deltaGRerr, deltaGR +
\* deltaGRerr], exactly one NegativeDeltaG with lb = ub = 0) if and only if it
\* has computed = true and is no water transport; a reaction on the other
\* branch has none of DeltaG, DeltaGstd, NegativeDeltaG, ForwardDeltaGCoupling,
\* BackwardDeltaGCoupling, DisplacementCoupling but has its two use variables;
\* after convert the number of NegativeDeltaG constraints is the number of
\* computed reactions that are no water transports.
C3_EnergyBalanceSet ==
    /\ \A r \in ConvertedRxns :
         IF rxn_thermo[r].computed /\ ~IsWaterTransport(r)
         THEN /\ DG(r) \in DOMAIN var_dict
              /\ var_dict[DG(r)].lb = 0 - BIGM_THERMO /\ var_dict[DG(r)].ub = BIGM_THERMO
              /\ Name("DeltaGstd", r) \in DOMAIN var_dict
              /\ var_dict[Name("DeltaGstd", r)].lb
                   = rxn_thermo[r].deltaGR - rxn_thermo[r].deltaGRerr
              /\ var_dict[Name("DeltaGstd", r)].ub
                   = rxn_thermo[r].deltaGR + rxn_thermo[r].deltaGRerr
              /\ ConsOf(cons_dict, "NegativeDeltaG", r) = {Name("NegativeDeltaG", r)}
              /\ cons_dict[Name("NegativeDeltaG", r)].lb = At(0)
              /\ cons_dict[Name("NegativeDeltaG", r)].ub = At(0)
         ELSE /\ \A k \in {"DeltaG", "DeltaGstd"} : VarsOf(var_dict, k, r) = {}
              /\ \A k \in {"NegativeDeltaG", "ForwardDeltaGCoupling",
                           "BackwardDeltaGCoupling", "DisplacementCoupling"} :
                   ConsOf(cons_dict, k, r) = {}
              /\ FU(r) \in DOMAIN var_dict /\ BU(r) \in DOMAIN var_dict
    /\ ConvertDone =>
         Cardinality({n \in DOMAIN cons_dict : cons_dict[n].kind = "NegativeDeltaG"})
           = Cardinality({r \in RxnIds : rxn_thermo[r].computed /\ ~IsWaterTransport(r)})
\* C3 witness: a finished conversion with a computed water transport, which
\* gets no energy balance, next to a reaction that is not computed
C3_Witness ==
    /\ ConvertDone
    /\ \E r \in RxnIds : rxn_thermo[r].computed /\ IsWaterTransport(r)
    /\ \E r \in RxnIds : ~rxn_thermo[r].computed

\* convert has passed its check of the flux bounds
PastBoundsCheck ==
    /\ op = "convert"
    /\ \/ pc \in {"check_thermo", "convert_metabolite", "convert_reaction", "repair"}
       \/ pc = "idle" /\ raised # BoundsError
\* C4 as stated: convert goes on past its check only when every flux bound lies
\* strictly inside [-BIGM, BIGM]; a bound equal to -BIGM or BIGM is refused.
C4_StrictlyInside ==
    PastBoundsCheck =>
        \A r \in RxnIds : /\ 0 - BIGM < reactions[r].lower_bound
                          /\ reactions[r].upper_bound < BIGM
\* C4 amended: if some reaction has a lower flux bound below -BIGM or an upper
\* flux bound above BIGM, convert raises before it registers anything (the
\* registry is as the call found it); bounds equal to -BIGM or BIGM are accepted.
C4_BoundsCheck ==
    /\ PastBoundsCheck =>
         \A r \in RxnIds : /\ 0 - BIGM <= reactions[r].lower_bound
                           /\ reactions[r].upper_bound <= BIGM
    /\ (op = "convert" /\ pc = "idle" /\ raised = BoundsError) =>
         /\ Registry = pre
         /\ \E r \in RxnIds : \/ reactions[r].lower_bound < 0 - BIGM
                              \/ reactions[r].upper_bound > BIGM
\* C4 witness: convert has raised on a lower bound below -BIGM of a prepared model
C4_Witness ==
    /\ op = "convert" /\ pc = "idle" /\ raised = BoundsError
    /\ \E r \in RxnIds : reactions[r].lower_bound < 0 - BIGM
    /\ \A r \in RxnIds : rxn_thermo[r].has

\* C5: after prepare, a reaction has computed = false exactly when it has a
\* single metabolite, or some participant has a formation energy in the
\* sentinel range (deltaGf_std > 0.9*BIGM_DG), or it has 100 or more
\* participants, or the balance check reports 'missing atoms' or 'drain flux';
\* with computed = false both deltaGR and deltaGRerr are BIGM_DG.
C5_ComputedFlag ==
    \A r \in RxnIds :
        rxn_thermo[r].has =>
            /\ ~rxn_thermo[r].computed <=>
                 \/ Cardinality({m \in MetIds : reactions[r].stoich[m] # 0})
                      + reactions[r].n_other = 1
                 \/ \E m \in MetIds :
                      /\ reactions[r].stoich[m] # 0
                      /\ 10 * met_thermo[m].deltaGf_std > 9 * BIGM_DG
                 \/ Cardinality({m \in MetIds : reactions[r].stoich[m] # 0})
                      + reactions[r].n_other >= 100
                 \/ reactions[r].balance = "missing atoms"
                 \/ reactions[r].balance = "drain flux"
            /\ ~rxn_thermo[r].computed =>
                 rxn_thermo[r].deltaGR = BIGM_DG /\ rxn_thermo[r].deltaGRerr = BIGM_DG
\* C5 witness: prepare is done, one reaction is computed and another is not for
\* the only reason that it has 100 participants
C5_Witness ==
    /\ PrepareDone
    /\ \E r \in RxnIds : rxn_thermo[r].computed
    /\ \E r \in RxnIds :
         /\ ~rxn_thermo[r].computed
         /\ NumMetabolites(r) = 100
         /\ reactions[r].balance = "ok"
         /\ CorrectThermoValues(r)

NoVariableOf(m) == \A n \in DOMAIN var_dict : var_dict[n].hook.id # m
FixedAtZero(m) ==
    /\ Name("LogConcentration", m) \in DOMAIN var_dict
    /\ var_dict[Name("LogConcentration", m)].lb = 0
    /\ var_dict[Name("LogConcentration", m)].ub = 0
\* C6 as stated: a processed metabolite with formula H2O has a LogConcentration
\* variable with bounds [0, 0]; one annotated cpd11416 has no typed variable,
\* whatever its formula; one whose deltaGf_tr is the sentinel has none either.
C6_BiomassNeverGetsVariable ==
    \A m \in ConvertedMets :
        /\ metabolites[m].formula = "H2O" => FixedAtZero(m)
        /\ metabolites[m].seed_id = "cpd11416" => NoVariableOf(m)
        /\ (metabolites[m].formula # "H2O"
            /\ met_thermo[m].deltaGf_tr >= DGF_LIMIT) => NoVariableOf(m)
\* C6 amended: a processed metabolite with formula H2O has a LogConcentration
\* variable with bounds [0, 0], whatever its annotation and thermo data; one
\* annotated cpd11416 whose formula is neither H2O nor H has no typed variable;
\* one whose formula is neither H2O nor H and whose deltaGf_tr is the sentinel
\* (not below 10^6) has none either.
C6_MetaboliteBoundary ==
    \A m \in ConvertedMets :
        /\ metabolites[m].formula = "H2O" => FixedAtZero(m)
        /\ (metabolites[m].formula \notin {"H2O", "H"}
            /\ metabolites[m].seed_id = "cpd11416") => NoVariableOf(m)
        /\ (metabolites[m].formula \notin {"H2O", "H"}
            /\ met_thermo[m].deltaGf_tr >= DGF_LIMIT) => NoVariableOf(m)
\* C6 witness: convert is done on a model with a metabolite of formula H2O
\* annotated as the biomass marker, and a biomass marker of another formula
C6_Witness ==
    /\ ConvertDone
    /\ \E m \in MetIds :
         metabolites[m].formula = "H2O" /\ metabolites[m].seed_id = "cpd11416"
    /\ \E m \in MetIds :
         metabolites[m].formula = "X" /\ metabolites[m].seed_id = "cpd11416"

\* C7: convert on a model whose reactions carry no thermo record never gets to
\* emit anything: it ends with an exception and leaves the registry as it found it.
C7_UnpreparedConvertRaises ==
    (op = "convert" /\ \E r \in RxnIds : ~rxn_thermo[r].has) =>
        /\ pc \in {"check_bounds", "check_thermo", "idle"}
        /\ Registry = pre
        /\ pc = "idle" => raised # ""
\* C7 witness: convert has raised 'Reaction thermo data missing'
C7_Witness ==
    /\ op = "convert" /\ pc = "idle" /\ raised = "Reaction thermo data missing"
    /\ \A r \in RxnIds : ~rxn_thermo[r].has

HasProton(c) ==
    \E m \in MetIds :
        /\ metabolites[m].compartment = c
        /\ metabolites[m].formula = "H" \/ metabolites[m].seed_id = "cpd00067"
\* C8 as stated: prepare completes only if every compartment that holds a
\* metabolite has a proton, and no reaction is annotated against a compartment
\* without one.
C8_EveryCompartmentHasProton ==
    /\ PrepareDone => \A m \in MetIds : HasProton(metabolites[m].compartment)
    /\ \A r \in RxnIds : rxn_thermo[r].has => HasProton(rxn_thermo[r].compartment)
\* C8 amended: prepare raises 'Cannot find proton' only when the model has no
\* proton metabolite in any compartment; with a proton in some compartment it
\* goes on, and a reaction of a compartment without a proton is annotated with
\* no proton (None) given to the balance check, every other reaction with a
\* proton of its compartment.
C8_ProtonCheck ==
    /\ (op = "prepare" /\ raised = "Cannot find proton") =>
         /\ \A c \in Compartments : ~HasProton(c)
         /\ \A r \in RxnIds : ~rxn_thermo[r].has
    /\ (op = "prepare" /\ (pc = "prepare_reaction" \/ PrepareDone)) =>
         \E c \in Compartments : HasProton(c)
    /\ \A r \in RxnIds :
         rxn_thermo[r].has =>
             IF HasProton(rxn_thermo[r].compartment)
             THEN /\ rxn_thermo[r].proton \in MetIds
                  /\ metabolites[rxn_thermo[r].proton].compartment
                       = rxn_thermo[r].compartment
                  /\ \/ metabolites[rxn_thermo[r].proton].formula = "H"
                     \/ metabolites[rxn_thermo[r].proton].seed_id = "cpd00067"
             ELSE rxn_thermo[r].proton = "None"
\* C8 witness: prepare is done although the compartment of a reaction has no proton
C8_Witness ==
    /\ PrepareDone
    /\ \E r \in RxnIds : rxn_thermo[r].proton = "None"
    /\ \E c \in Compartments : HasProton(c)

KindsIn(d) == {d[n].kind : n \in DOMAIN d}
CountOfKind(d, k) == Cardinality({n \in DOMAIN d : d[n].kind = k})
SameCounts(d, e) ==
    \A k \in KindsIn(d) \cup KindsIn(e) : CountOfKind(d, k) = CountOfKind(e, k)
\* the entry of the copy under name n is hooked to the new model's entity whose
\* id is that of the original's hook, and has the original's bounds
Rehooked(d, e, n) ==
    /\ n \in DOMAIN e
    /\ d[n].kind = e[n].kind
    /\ d[n].hook.model = "new"
    /\ d[n].hook.id = e[n].hook.id
    /\ d[n].lb = e[n].lb
    /\ d[n].ub = e[n].ub
RadiusFound == op = "chebyshev_center" /\ pc = "idle" /\ cheb.radius >= 0
\* C10: chebyshev_center creates one radius variable with bounds [0, big_m], the
\* optimal radius is >= 0 and <= big_m, and whatever that radius is the call
\* completes normally and returns its result; when the radius is within the
\* optimality tolerance of big_m it has emitted the warning.
C10_RadiusWarning ==
    RadiusFound =>
        /\ Radius \in DOMAIN Target[1]
        /\ Target[1][Radius].lb = 0 /\ Target[1][Radius].ub = args.big_m
        /\ CountOfKind(Target[1], "ChebyshevRadius") = 1
        /\ cheb.radius >= 0 /\ cheb.radius <= args.big_m
        /\ raised = "" /\ cheb.returned
        /\ (args.big_m - cheb.radius <= optimality) => cheb.warned

\* the entries of the clone that are hooked to an entity of the caller's model:
\* what a call on the clone attaches to the caller
AttachedToCaller ==
    {n \in DOMAIN new_model.var_dict : new_model.var_dict[n].hook.model = "self"}
        \cup {n \in DOMAIN new_model.cons_dict : new_model.cons_dict[n].hook.model = "self"}
\* C11: while and after chebyshev_center runs with inplace = False the caller's
\* registry is the one the call found (no radius variable, no constraint
\* rewritten), and every addition and rewrite is on the clone only: nothing the
\* clone holds is attached to the caller's model.
C11_CallerUntouched ==
    (op = "chebyshev_center" /\ ~args.inplace) =>
        /\ Registry = pre
        /\ Radius \notin DOMAIN var_dict
        /\ AttachedToCaller = {}

\* the constraint refers to a target variable of the call
RefersToTarget(c) == (DOMAIN c.expr) \cap args.variables # {}
\* the filter as C12 reads it: an empty include list names no restriction
PassesFilter(c) ==
    /\ c.kind \notin args.exclude
    /\ args.include = {} \/ c.kind \in args.include
\* the constraints of the call have been rewritten
Rewritten == op = "chebyshev_center" /\ pc \in {"cheb_optimize", "cheb_report"}
\* C12: once chebyshev_center has rewritten the constraints, the radius is in
\* every constraint with an open bound that refers to a target variable and
\* whose kind the include/exclude filter does not remove; with the default
\* empty include and exclude that is every such constraint.
C12_EveryInequalityRewritten ==
    Rewritten =>
        \A n \in DOMAIN Target[2] :
            (is_inequality(Target[2][n]) /\ RefersToTarget(Target[2][n])
                /\ PassesFilter(Target[2][n]))
              => Radius \in DOMAIN Target[2][n].expr

\* the constraint of the registry the call found that has become constraint n
Before(n) == IF args.inplace THEN pre[2][n] ELSE cons_dict[n]
\* the terms of an expression other than the radius terms
WithoutRadius(e) == [v \in (DOMAIN e) \ {Radius} |-> e[v]]
\* the radius terms of an expression: the signed squared norms, one per rewrite
RadiusTerms(e) == IF Radius \in DOMAIN e THEN e[Radius][1] ELSE <<>>
\* the squared Euclidean norm of the coefficients of the target variables
TargetNormSquared(c) ==
    LET hit == (DOMAIN c.expr) \cap args.variables
    IN SumOver(hit, [v \in hit |-> c.expr[v][1] * c.expr[v][1]])
\* the constraint is one the call has to rewrite
Qualifies(c) ==
    /\ c.kind \in args.include /\ c.kind \notin args.exclude
    /\ is_inequality(c)
    /\ RefersToTarget(c)
C14_ResultHasRadius ==
    (op = "chebyshev_center" /\ pc = "idle" /\ cheb.returned) =>
        /\ cheb.result.series = args.variables
        /\ cheb.result.radius = <<cheb.radius>>

\* what get_variables_of_type(K) and get_constraints_of_type(K) return
VariablesOfType(k) == IF k \in DOMAIN kinds.var_kinds THEN kinds.var_kinds[k] ELSE {}
ConstraintsOfType(k) == IF k \in DOMAIN kinds.cons_kinds THEN kinds.cons_kinds[k] ELSE {}
\* the kind-indexed groupings are those of the registry as it is
GroupingsExact ==
    /\ kinds.made
    /\ \A k \in ReactionVariableKinds \cup MetaboliteVariableKinds \cup {"ChebyshevRadius"} :
         VariablesOfType(k) = {n \in DOMAIN var_dict : var_dict[n].kind = k}
    /\ \A k \in ReactionConstraintKinds \cup MetaboliteConstraintKinds :
         ConstraintsOfType(k) = {n \in DOMAIN cons_dict : cons_dict[n].kind = k}
\* a direct repair() call has just ended
AfterRepair == op = "repair" /\ pc = "idle"
\* C15: immediately after any repair() call, whatever calls on the registry came
\* before it, get_variables_of_type(K) is the set of the variables of kind K in
\* the registry and get_constraints_of_type(K) the set of its constraints of kind
\* K, for every kind K, a kind without instance included.
C15_NeverStaleAfterRepair == AfterRepair => GroupingsExact

\* C20: a repair() call completes without raising in every registry state that
\* add, remove, repair and kind lookups can reach, and a second repair() right
\* after it would leave the same groupings.
C20_RepairIdempotent ==
    AfterRepair =>
        /\ raised = ""
        /\ ~RepairFails(kinds)
        /\ repair(kinds, var_dict, cons_dict).var_kinds = kinds.var_kinds
        /\ repair(kinds, var_dict, cons_dict).cons_kinds = kinds.cons_kinds

\* the text of a registry key: the prefix of the kind, then the id of the hook
KeyText(n) == <<n[1], "_">> \o EntityId(n[2])
HasBracket(text) == \E k \in 1..Len(text) : text[k] \in Brackets
\* convert is past the step that rewrites the names
NamesRewritten ==
    op = "convert" /\ (ConvertDone \/ pc \in {"convert_metabolite", "convert_reaction", "repair"})
\* C16: once convert has sanitized the metabolites and reactions, no key of the
\* variable registry or of the constraint registry contains one of the
\* characters [ ] ( ), whatever the identifiers of the source model.
C16_NoBracketInKeys ==
    NamesRewritten =>
        \A n \in (DOMAIN var_dict) \cup (DOMAIN cons_dict) : ~HasBracket(KeyText(n))

\* convert has ended after its checks of the flux bounds and of the thermo records
EmissionEnded ==
    /\ op = "convert" /\ pc = "idle"
    /\ raised \notin {BoundsError, "Reaction thermo data missing"}
\* C17: when convert with add_potentials = True has got past its checks on a
\* model with a metabolite of the ordinary branch, it has completed without
\* error and every such metabolite has its LogConcentration variable, one
\* potential variable P and one constraint tying P to it.
C17_PotentialMode ==
    (EmissionEnded /\ args.add_potentials
        /\ \E m \in MetIds : met_thermo[m].has /\ MetaboliteBranch(m) = "ordinary") =>
        /\ raised = ""
        /\ \A m \in MetIds :
             MetaboliteBranch(m) = "ordinary" =>
                 /\ VarsOf(var_dict, "LogConcentration", m) # {}
                 /\ Cardinality(VarsOf(var_dict, "P", m)) = 1
                 /\ \E n \in DOMAIN cons_dict :
                      /\ cons_dict[n].hook.id = m
                      /\ cons_dict[n].lb = cons_dict[n].ub

\* every metabolite of the model has its thermo record
AllMetabolitesAnnotated == \A m \in MetIds : met_thermo[m].has
\* every metabolite that gets a LogConcentration variable has got it in this convert
AllMetabolitesEmitted ==
    \A m \in MetIds :
        MetaboliteBranch(m) \in {"water", "proton", "ordinary"} =>
            /\ m \in LC_vars
            /\ Name("LogConcentration", m) \in DOMAIN var_dict
\* C18: a step of prepare that annotates a reaction is taken only when every
\* metabolite is annotated and the proton lookup is done, and a step of convert
\* that emits for a reaction only when the variables of all metabolites are
\* emitted; the metabolite loops never run once the reaction loop has started.
C18_MetabolitesFirst ==
    [][/\ (op = "prepare" /\ rxn_thermo' # rxn_thermo) =>
            /\ pc = "prepare_reaction"
            /\ AllMetabolitesAnnotated
            /\ DOMAIN proton_of # {}
            /\ pc' \notin {"prepare_metabolite", "find_proton"}
       /\ (op = "convert" /\ pc # "idle" /\ (var_dict' # var_dict \/ cons_dict' # cons_dict)) =>
            \/ pc = "convert_metabolite"
            \/ /\ pc = "convert_reaction"
               /\ AllMetabolitesEmitted
               /\ pc' # "convert_metabolite"]_vars
\* C18 witness: convert is in its reaction loop, the first reaction done, with
\* variables of metabolites and constraints of that reaction in the registry
C18_Witness ==
    /\ op = "convert" /\ pc = "convert_reaction" /\ i = 2
    /\ LC_vars # {}
    /\ ConsOf(cons_dict, "NegativeDeltaG", RxnOrder[1]) # {}

\* the metabolites whose entry of LC_vars the energy balance of reaction r reads
LCLookups(r) ==
    IF ~rxn_thermo[r].isTrans /\ args.add_potentials THEN {}
    ELSE LookedUp(r, args.add_potentials)
\* C19: whenever convert is about to build the energy balance of a
\* thermo-constrained reaction, every metabolite whose LogConcentration variable
\* it looks up is in LC_vars, and no convert ends with a KeyError.
C19_LookupNeverFails ==
    /\ (op = "convert" /\ pc = "convert_reaction" /\ ThermoConstrained(RxnOrder[i])) =>
         LCLookups(RxnOrder[i]) \subseteq LC_vars
    /\ (op = "convert" /\ ~args.add_potentials) => raised # "KeyError"
====
